---- MODULE Spec2Model ----
(***************************************************************************)
(* Model of the Swagger 2.0 adapter (src/src/adapter.js): parse() turns a  *)
(* Swagger document into a tree of API elements with annotations; the      *)
(* position resolver getPosition() maps a document path to a source range. *)
(*                                                                         *)
(* Conventions.  An optional JavaScript value is a sequence of length 0    *)
(* (undefined / null) or 1.  A JavaScript object is a sequence of its      *)
(* entries in iteration order.  A dotted path string is the sequence of    *)
(* its pieces; a piece is [key, idx] where idx holds the decimal digits of *)
(* a trailing "[N]" (empty when the piece has no index suffix).            *)
(***************************************************************************)
EXTENDS Integers, Sequences, FiniteSets, TLC

VARIABLES
    pc,          \* position of the parse() invocation
    input,       \* the arguments of parse() and the collaborators' answers
    ast,         \* `ast` of parse(): <<>> (null) or <<root node>>
    result,      \* parseResult.content, in order
    apiContent,  \* api.content: the children of the root Category
    group,       \* `group` of parse(): <<>> is the root, <<t>> the group titled t
    useGroups,   \* `useGroups` of parse()
    groupNames,  \* the 'x-group-name' useResourceGroups left on each path
    queue,       \* `queue` of the validation worklist
    pathIdx,     \* number of paths the _.each over swagger.paths has visited
    doneCalls,   \* the calls of `done` so far: [err, result]
    gpc,         \* position of the getPosition() invocation
    gast,        \* `ast` of getPosition(): the root node
    gpath,       \* `path` of getPosition(), as its pieces
    gnode,       \* `node` of getPosition()
    gpiece,      \* `piece` of getPosition(): <<>> (undefined) or <<piece>>
    gpieces,     \* `pieces` of getPosition()
    gstart,      \* `start` of getPosition(): <<>> (undefined) or <<offset>>
    gend,        \* `end` of getPosition()
    gposition    \* how getPosition() ended: <<>> until then, else <<outcome>>

parser == <<pc, input, ast, result, apiContent, group, useGroups, groupNames,
            queue, pathIdx, doneCalls>>

resolver == <<gpc, gast, gpath, gnode, gpiece, gpieces, gstart, gend, gposition>>

vars == <<parser, resolver>>

---------------------------------------------------------------------------
(* Bounds of the explored inputs. *)

MaxPaths == 3
MaxOps == 3
MaxParams == 2
MaxResponses == 2
MaxExamples == 2
MaxErrItems == 4
MaxDefault == 1

---------------------------------------------------------------------------
(* Generic helpers. *)

Some(x) == <<x>>
None == <<>>

Range(s) == {s[i] : i \in 1..Len(s)}

RECURSIVE SeqsUpTo(_, _)
SeqsUpTo(S, n) ==
    IF n = 0 THEN {<<>>}
    ELSE LET shorter == SeqsUpTo(S, n - 1)
         IN  shorter \cup {Append(s, x) : s \in {t \in shorter : Len(t) = n - 1}, x \in S}

RECURSIVE Concat(_)
Concat(ss) == IF ss = <<>> THEN <<>> ELSE Head(ss) \o Concat(Tail(ss))

Count(s, P(_)) == Cardinality({i \in 1..Len(s) : P(s[i])})

\* decimal digits of a natural number, most significant first
RECURSIVE Digits(_)
Digits(n) == IF n < 10 THEN <<n>> ELSE Append(Digits(n \div 10), n % 10)

Piece(k) == [key |-> k, idx |-> <<>>]
IndexedPiece(k, n) == [key |-> k, idx |-> Digits(n)]

---------------------------------------------------------------------------
(* The annotation catalogue. *)

CANNOT_PARSE == [type |-> "error", code |-> 1, fragment |-> "yaml-parser"]
AST_UNAVAILABLE == [type |-> "warning", code |-> 2, fragment |-> "yaml-parser"]
DATA_LOST == [type |-> "warning", code |-> 3, fragment |-> "refract-not-supported"]
VALIDATION_ERROR == [type |-> "warning", code |-> 4, fragment |-> "swagger-validation"]

---------------------------------------------------------------------------
(* The source AST (yaml-js): a node is [tag, value, start_mark, end_mark]. *)
(* A mapping's value is a sequence of <<key node, value node>>, a          *)
(* sequence's value is a sequence of nodes, a scalar's value is its text.  *)
(* `ref` is the text of a scalar split at '/' when the text is a reference *)
(* ("#/definitions/Pet" is <<"#", "definitions", "Pet">>), else empty.     *)

Scalar(v, s, e) ==
    [tag |-> "scalar", value |-> v, ref |-> <<>>, start_mark |-> s, end_mark |-> e]
RefScalar(parts, s, e) ==
    [tag |-> "scalar", value |-> "$text", ref |-> parts, start_mark |-> s, end_mark |-> e]
Mapping(v, s, e) ==
    [tag |-> "map", value |-> v, ref |-> <<>>, start_mark |-> s, end_mark |-> e]
Sequence(v, s, e) ==
    [tag |-> "seq", value |-> v, ref |-> <<>>, start_mark |-> s, end_mark |-> e]

\* piece.match(/(.*)\[([0-9])+\]$/): the repeated group keeps its last digit
MatchName(piece) == piece.key
MatchIndex(piece) ==
    IF piece.idx = <<>> THEN None ELSE Some(piece.idx[Len(piece.idx)])

\* `while (piece)`: undefined (nothing left to shift) and '' end the loop
Truthy(pieceOpt) ==
    /\ pieceOpt # <<>>
    /\ ~(pieceOpt[1].key = "" /\ pieceOpt[1].idx = <<>>)

Shift(pieces) == IF pieces = <<>> THEN None ELSE Some(Head(pieces))
Rest(pieces) == IF pieces = <<>> THEN <<>> ELSE Tail(pieces)

\* subNode[1].value.indexOf('#') === 0
IsInternalRef(node) ==
    /\ node.tag = "scalar"
    /\ node.ref # <<>>
    /\ node.ref[1] = "#"

\* the first child of a mapping that ends the `for ... of node.value` scan:
\* a key equal to the piece, or a '$ref' key holding an internal reference
FirstHit(node, name) ==
    LET hits == {i \in 1..Len(node.value) :
                    \/ node.value[i][1].value = name
                    \/ /\ node.value[i][1].value = "$ref"
                       /\ IsInternalRef(node.value[i][2])}
    IN  IF node.tag # "map" \/ hits = {} THEN 0
        ELSE CHOOSE i \in hits : \A j \in hits : i <= j

\* what `value[index]` gives that is not a node: a [key, value] pair of a
\* mapping or a character of a scalar's text; it has no value and no marks
NotANode ==
    [tag |-> "none", value |-> <<>>, ref |-> <<>>, start_mark |-> 0, end_mark |-> 0]

IsNode(element) == element.tag # "none"

\* subNode[1].value[index]: <<>> when there is no such element
ElementAt(valueNode, index) ==
    IF index + 1 <= Len(valueNode.value)
    THEN Some(IF valueNode.tag = "seq" THEN valueNode.value[index + 1] ELSE NotANode)
    ELSE None

MaxRefSteps == 8

RECURSIVE Walk(_, _, _, _, _)
\* one evaluation of the while loop of getPosition from (node, piece, pieces);
\* the outcome is [kind, start, end] with kind "range" (returned {start, end},
\* either possibly undefined), "null", "throws" (TypeError) or "diverges"
Walk(root, node, pieceOpt, pieces, fuel) ==
    IF ~Truthy(pieceOpt)
    THEN [kind |-> "range", start |-> None, end |-> None]
    ELSE IF ~IsNode(node)
    THEN \* `for (const subNode of node.value)`: node.value is undefined
         [kind |-> "throws", start |-> None, end |-> None]
    ELSE
      LET piece == pieceOpt[1]
          name == MatchName(piece)
          index == MatchIndex(piece)
          hit == FirstHit(node, name)
      IN
      IF hit = 0 THEN [kind |-> "null", start |-> None, end |-> None]
      ELSE
        LET subNode == node.value[hit] IN
        IF subNode[1].value = name
        THEN
          IF pieces # <<>>
          THEN
            LET newNode == IF index = None THEN Some(subNode[2])
                           ELSE ElementAt(subNode[2], index[1])
            IN  IF newNode = None
                THEN [kind |-> "null", start |-> None, end |-> None]
                ELSE Walk(root, newNode[1], Shift(pieces), Rest(pieces), fuel)
          ELSE
            IF index # None
            THEN
              LET newNode == ElementAt(subNode[2], index[1])
              IN  IF newNode = None \/ ~IsNode(newNode[1])
                  THEN [kind |-> "throws", start |-> None, end |-> None]
                  ELSE [kind |-> "range",
                        start |-> Some(newNode[1].start_mark),
                        end |-> Some(newNode[1].end_mark)]
            ELSE [kind |-> "range",
                  start |-> Some(subNode[1].start_mark),
                  end |-> Some(subNode[2].end_mark)]
        ELSE
          \* internal reference: restart at the root with the referenced
          \* path, then the current piece (its index already stripped)
          IF fuel = 0
          THEN [kind |-> "diverges", start |-> None, end |-> None]
          ELSE
            LET refPaths == [i \in 1..(Len(subNode[2].ref) - 1) |->
                                Piece(subNode[2].ref[i + 1])]
                newPieces == refPaths \o <<Piece(name)>> \o pieces
            IN  Walk(root, root, Shift(newPieces), Rest(newPieces), fuel - 1)

getPosition(root, path) == Walk(root, root, Shift(path), Rest(path), MaxRefSteps)

\* position && !isNaN(position.start) && !isNaN(position.end)
ValidPosition(position) ==
    /\ position.kind = "range"
    /\ position.start # None
    /\ position.end # None

SourceMapOf(position) ==
    Some(<<position.start[1], position.end[1] - position.start[1]>>)

\* makeAnnotation(..., ast, result, info, path, message): the annotation it
\* pushes on result.content (`path` records the argument the annotation was
\* made for; the element itself does not keep it)
makeAnnotation(astOpt, info, pathOpt, message) ==
    LET position == getPosition(astOpt[1], pathOpt[1])
    IN  [element |-> "annotation",
         classes |-> <<info.type>>,
         code |-> info.code,
         link |-> IF info.fragment # "" THEN Some(info.fragment) ELSE None,
         message |-> message,
         path |-> pathOpt,
         sourceMap |-> IF astOpt # None /\ pathOpt # None /\ ValidPosition(position)
                       THEN SourceMapOf(position) ELSE None]

---------------------------------------------------------------------------
(* The Swagger document.  A document is                                    *)
(*   [basePath, host, schemes, securityDefinitions, security,              *)
(*    externalDocs, paths]                                                 *)
(* a path item [href, parameters, ops], a parameter [name, in, type,       *)
(* description, required, default], an operation [method, tags,            *)
(* parameters, externalDocs, responses] and a response [code, examples]:   *)
(* `examples` is undefined or the sequence of its keys.                    *)
(*                                                                         *)
(* A JavaScript value (a parameter's default) is [kind, num, text, flag]:  *)
(* a number num, a string text, a boolean flag or an array of num items.   *)

Number(n) == [kind |-> "number", num |-> n, text |-> "", flag |-> FALSE]
String(t) == [kind |-> "string", num |-> 0, text |-> t, flag |-> FALSE]
Boolean(b) == [kind |-> "boolean", num |-> 0, text |-> "", flag |-> b]
Array(n) == [kind |-> "array", num |-> n, text |-> "", flag |-> FALSE]

\* `if (value)`: 0, '' and false are falsy, every array is truthy
JSTruthy(value) ==
    CASE value.kind = "number" -> value.num # 0
      [] value.kind = "string" -> value.text # ""
      [] value.kind = "boolean" -> value.flag
      [] OTHER -> TRUE

Param(n, where) ==
    [name |-> n, in |-> where, type |-> None, description |-> None,
     required |-> FALSE, default |-> None]

TypedParam(n, where, type, required, default) ==
    [Param(n, where) EXCEPT !.type = Some(type), !.required = required,
                            !.default = default]

Operation(m, tags, params, responses) ==
    [method |-> m, tags |-> tags, parameters |-> params, externalDocs |-> FALSE,
     responses |-> responses]

PathItem(href, params, ops) == [href |-> href, parameters |-> params, ops |-> ops]

Document(paths) ==
    [basePath |-> "", host |-> None, schemes |-> <<>>,
     securityDefinitions |-> FALSE, security |-> FALSE, externalDocs |-> FALSE,
     paths |-> paths]

Hrefs == <<"/a", "/b", "/c", "/d">>
Methods == <<"get", "post", "put", "delete">>

\* yamlAst.compose(source): the AST of the text the document was loaded
\* from.  A shape is the tree without marks; Layout gives every node the
\* span of its text, laid out in document order.
ScalarShape == [k |-> "s", c |-> <<>>]
RefShape(parts) == [k |-> "r", c |-> parts]
MapShape(pairs) == [k |-> "m", c |-> pairs]
SeqShape(items) == [k |-> "q", c |-> items]
Entry(key, shape) == [key |-> key, val |-> shape]

ParamShape(p) ==
    MapShape(
        <<Entry("name", ScalarShape), Entry("in", ScalarShape)>>
        \o (IF p.type = None THEN <<>> ELSE <<Entry("type", ScalarShape)>>)
        \o (IF p.description = None THEN <<>> ELSE <<Entry("description", ScalarShape)>>)
        \o (IF p.required THEN <<Entry("required", ScalarShape)>> ELSE <<>>)
        \o (IF p.default = None THEN <<>>
            ELSE <<Entry("default",
                         IF p.default[1].kind = "array"
                         THEN SeqShape([i \in 1..p.default[1].num |-> ScalarShape])
                         ELSE ScalarShape)>>))

ResponseShape(r) ==
    MapShape(IF r.examples = None THEN <<>>
             ELSE <<Entry("examples",
                          MapShape([i \in 1..Len(r.examples[1]) |->
                                       Entry(r.examples[1][i], ScalarShape)]))>>)

OperationShape(op) ==
    MapShape(
        (IF op.tags = <<>> THEN <<>>
         ELSE <<Entry("tags", SeqShape([i \in 1..Len(op.tags) |-> ScalarShape]))>>)
        \o (IF op.parameters = <<>> THEN <<>>
            ELSE <<Entry("parameters",
                         SeqShape([i \in 1..Len(op.parameters) |->
                                      ParamShape(op.parameters[i])]))>>)
        \o (IF op.externalDocs THEN <<Entry("externalDocs", MapShape(<<>>))>> ELSE <<>>)
        \o (IF op.responses = None THEN <<>>
            ELSE <<Entry("responses",
                         MapShape([i \in 1..Len(op.responses[1]) |->
                                      Entry(op.responses[1][i].code,
                                            ResponseShape(op.responses[1][i]))]))>>))

PathShape(p) ==
    MapShape(
        (IF p.parameters = <<>> THEN <<>>
         ELSE <<Entry("parameters",
                      SeqShape([i \in 1..Len(p.parameters) |->
                                   ParamShape(p.parameters[i])]))>>)
        \o [i \in 1..Len(p.ops) |-> Entry(p.ops[i].method, OperationShape(p.ops[i]))])

DocumentShape(doc) ==
    MapShape(
        <<Entry("swagger", ScalarShape)>>
        \o (IF doc.host = None THEN <<>> ELSE <<Entry("host", ScalarShape)>>)
        \o (IF doc.schemes = <<>> THEN <<>>
            ELSE <<Entry("schemes",
                         SeqShape([i \in 1..Len(doc.schemes) |-> ScalarShape]))>>)
        \o (IF doc.securityDefinitions
            THEN <<Entry("securityDefinitions", MapShape(<<>>))>> ELSE <<>>)
        \o (IF doc.security THEN <<Entry("security", SeqShape(<<>>))>> ELSE <<>>)
        \o (IF doc.externalDocs THEN <<Entry("externalDocs", MapShape(<<>>))>> ELSE <<>>)
        \o <<Entry("paths",
                   MapShape([i \in 1..Len(doc.paths) |->
                                Entry(doc.paths[i].href, PathShape(doc.paths[i]))]))>>)

RECURSIVE Size(_)
RECURSIVE SizeAll(_)
Size(sh) ==
    IF sh.k \in {"s", "r"} THEN 1
    ELSE IF sh.k = "m" THEN 1 + SizeAll([i \in 1..Len(sh.c) |-> sh.c[i].val]) + Len(sh.c)
    ELSE 1 + SizeAll(sh.c)
SizeAll(shapes) ==
    IF shapes = <<>> THEN 0 ELSE Size(Head(shapes)) + SizeAll(Tail(shapes))

RECURSIVE Layout(_, _)
RECURSIVE LayoutPairs(_, _)
RECURSIVE LayoutItems(_, _)
Layout(sh, o) ==
    IF sh.k = "s" THEN Scalar("text", o, o + 1)
    ELSE IF sh.k = "r" THEN RefScalar(sh.c, o, o + 1)
    ELSE IF sh.k = "m" THEN Mapping(LayoutPairs(sh.c, o + 1), o, o + Size(sh))
    ELSE Sequence(LayoutItems(sh.c, o + 1), o, o + Size(sh))
LayoutPairs(pairs, o) ==
    IF pairs = <<>> THEN <<>>
    ELSE <<<<Scalar(Head(pairs).key, o, o + 1), Layout(Head(pairs).val, o + 1)>>>>
         \o LayoutPairs(Tail(pairs), o + 1 + Size(Head(pairs).val))
LayoutItems(items, o) ==
    IF items = <<>> THEN <<>>
    ELSE <<Layout(Head(items), o)>> \o LayoutItems(Tail(items), o + Size(Head(items)))

compose(doc) == Layout(DocumentShape(doc), 0)

---------------------------------------------------------------------------
(* The element tree builder.  Every annotation the builder asks for is a   *)
(* call [info, path, message]; Emit turns the calls into annotations.      *)

Call(info, pathOpt, message) == [info |-> info, path |-> pathOpt, message |-> message]

\* how the getPosition call of makeAnnotation ends: "range", "null",
\* "throws" or "diverges" ("range" when makeAnnotation does not call it)
PositionOutcome(astOpt, call) ==
    IF astOpt # None /\ call.path # None
    THEN getPosition(astOpt[1], call.path[1]).kind
    ELSE "range"

Fails(astOpt, call) == PositionOutcome(astOpt, call) \in {"throws", "diverges"}

\* the number of calls that complete before the first one that fails
RECURSIVE Completed(_, _)
Completed(astOpt, calls) ==
    IF calls = <<>> \/ Fails(astOpt, Head(calls)) THEN 0
    ELSE 1 + Completed(astOpt, Tail(calls))

Emit(astOpt, calls) ==
    [i \in 1..Completed(astOpt, calls) |->
        makeAnnotation(astOpt, calls[i].info, calls[i].path, calls[i].message)]

\* "none" when every call completes
Failure(astOpt, calls) ==
    IF Completed(astOpt, calls) = Len(calls) THEN "none"
    ELSE PositionOutcome(astOpt, calls[Completed(astOpt, calls) + 1])

\* isExtension(value, key): key.indexOf('x-') === 0
ExtensionKeys == {"x-r", "x-summary", "x-description", "x-group-name"}
isExtension(key) == key \in ExtensionKeys

RECURSIVE TagOf(_, _)
\* the inner _.each of useResourceGroups over the operations of one path,
\* from the tag found so far; `return false` only ends the callback of the
\* current operation (_.each goes on with the next one)
TagOf(ops, tag) ==
    IF ops = <<>> THEN tag
    ELSE
      LET operation == Head(ops) IN
      IF Len(operation.tags) > 0
      THEN IF Len(operation.tags) > 1 THEN TagOf(Tail(ops), tag)
           ELSE IF tag = None THEN TagOf(Tail(ops), Some(operation.tags[1]))
           ELSE TagOf(Tail(ops), tag)
      ELSE TagOf(Tail(ops), tag)

\* useResourceGroups(api): [use, names], names[i] the 'x-group-name' set on
\* path i (<<>> when none is set)
useResourceGroups(api) ==
    LET names == [i \in 1..Len(api.paths) |-> TagOf(api.paths[i].ops, None)]
        tags == SelectSeq(names, LAMBDA n : n # None)
    IN  [use |-> Len(tags) > 0, names |-> names]

\* buildUriTemplate(basePath, href, pathObjectParameters, queryParameters):
\* the template text, as the sequence of the parts it is concatenated from
buildUriTemplate(basePath, href, pathObjectParameters, queryParameters) ==
    LET names == [i \in 1..Len(queryParameters) |-> queryParameters[i].name]
    IN  <<basePath, href>> \o names

\* an entry of an element's attributes
Attribute(key, value) == [key |-> key, value |-> value]

\* the element class convertParameterToElement picks for parameter.type
ElementOfType(typeOpt) ==
    IF typeOpt = None THEN "string"
    ELSE CASE typeOpt[1] = "string" -> "string"
           [] typeOpt[1] \in {"integer", "number"} -> "number"
           [] typeOpt[1] = "boolean" -> "boolean"
           [] typeOpt[1] = "array" -> "array"
           [] OTHER -> "string"

\* convertParameterToElement(minim, parameter): the member, its attributes
\* and those of its value (memberValue) the entries set, in order
convertParameterToElement(parameter) ==
    LET memberValue ==
            [element |-> ElementOfType(parameter.type),
             attributes |->
                 IF parameter.default # None /\ JSTruthy(parameter.default[1])
                 THEN <<Attribute("default", parameter.default[1])>>
                 ELSE <<>>]
    IN  [element |-> "member",
         key |-> parameter.name,
         value |-> memberValue,
         description |->
             IF parameter.description # None /\ parameter.description[1] # ""
             THEN parameter.description ELSE None,
         attributes |->
             IF parameter.required
             THEN <<Attribute("typeAttributes", <<"required">>)>>
             ELSE <<>>]

\* createTransaction(minim, transition, method), with the response the
\* examples loop then completes
createTransaction(method, statusCode, headers, requestContent) ==
    [element |-> "httpTransaction",
     content |-> <<"httpRequest", "httpResponse">>,
     request |-> [method |-> method, content |-> requestContent],
     response |-> [statusCode |-> statusCode, headers |-> headers]]

ParametersIn(parameters, places) == SelectSeq(parameters, LAMBDA q : q.in \in places)

PathPiecesOf(href) == <<Piece("paths"), Piece(href)>>

\* _.chain(methodValue.responses).omit('default').omit(isExtension), then the
\* synthetic 'null' response when nothing is left and a body parameter exists
relevantResponses(methodValue) ==
    LET declared == IF methodValue.responses = None THEN <<>> ELSE methodValue.responses[1]
        kept == SelectSeq(declared, LAMBDA r : r.code # "default" /\ ~isExtension(r.code))
        bodyParameters == ParametersIn(methodValue.parameters, {"body"})
    IN  IF kept = <<>> /\ bodyParameters # <<>>
        THEN <<[code |-> "null", examples |-> None]>>
        ELSE kept

\* ExampleKeys without `examples = _.omit(examples, 'schema')`
ExampleKeysWithSchema(responseValue) ==
    IF responseValue.examples # None THEN responseValue.examples[1] ELSE <<"">>

\* the keys of `examples` the inner _.each visits for one response
ExampleKeys(responseValue) ==
    LET examples == IF responseValue.examples # None THEN responseValue.examples[1]
                    ELSE <<"">>
    IN  SelectSeq(examples, LAMBDA k : k # "schema")

\* the transactions pushed for one response
TransactionsOf(methodValue, responseValue) ==
    LET keys == ExampleKeys(responseValue)
        bodyParameters == ParametersIn(methodValue.parameters, {"body"})
        requestContent == [i \in 1..Len(bodyParameters) |-> "messageBodySchema"]
    IN  [i \in 1..Len(keys) |->
            createTransaction(
                methodValue.method,
                IF responseValue.code # "null" THEN Some(responseValue.code) ELSE None,
                IF keys[i] # ""
                THEN Some(<<[element |-> "member", key |-> "Content-Type",
                             value |-> keys[i]]>>)
                ELSE None,
                requestContent)]

\* the transition of one operation of a path (lines 503-729)
TransitionOf(methodValue) ==
    LET responses == relevantResponses(methodValue)
        uriParameters == ParametersIn(methodValue.parameters, {"query", "path"})
        bare == IF responses = <<>>
                THEN <<createTransaction(methodValue.method, None, None, <<>>)>>
                ELSE <<>>
    IN  [element |-> "transition",
         method |-> methodValue.method,
         hrefVariables |->
             IF Len(uriParameters) > 0
             THEN Some([i \in 1..Len(uriParameters) |->
                           convertParameterToElement(uriParameters[i])])
             ELSE None,
         content |->
             bare \o Concat([i \in 1..Len(responses) |->
                                TransactionsOf(methodValue, responses[i])])]

\* the annotations asked for while one operation is built
OperationCalls(href, methodValue) ==
    LET base == PathPiecesOf(href) \o <<Piece(methodValue.method)>> IN
    (IF methodValue.externalDocs
     THEN <<Call(DATA_LOST, Some(base \o <<Piece("externalDocs")>>),
                 "External documentation is not yet supported")>>
     ELSE <<>>)
    \o (IF ParametersIn(methodValue.parameters, {"formData"}) # <<>>
        THEN <<Call(DATA_LOST, Some(base \o <<Piece("parameters")>>),
                    "Form data parameters are not yet supported")>>
        ELSE <<>>)
    \o (IF methodValue.responses # None
           /\ \E i \in 1..Len(methodValue.responses[1]) :
                 methodValue.responses[1][i].code = "default"
        THEN <<Call(DATA_LOST, Some(base \o <<Piece("responses"), Piece("default")>>),
                    "Default response is not yet supported")>>
        ELSE <<>>)

\* the annotations asked for by the forEach over the path-level parameters
PathParameterCalls(href, pathObjectParameters) ==
    Concat([i \in 1..Len(pathObjectParameters) |->
        IF pathObjectParameters[i].in = "body"
        THEN <<Call(DATA_LOST,
                    Some(PathPiecesOf(href) \o <<IndexedPiece("parameters", i - 1)>>),
                    "Path-level body parameters are not yet supported")>>
        ELSE <<>>])

\* resource.hrefVariables after the forEach over the path-level parameters
PathHrefVariables(pathObjectParameters) ==
    IF Len(pathObjectParameters) > 0
    THEN LET uri == ParametersIn(pathObjectParameters, {"query", "path"})
         IN  Some([i \in 1..Len(uri) |-> convertParameterToElement(uri[i])])
    ELSE None

\* the Resource of one path once its operations are visited: its href is
\* the one the last visited operation set
ResourceOf(swagger, pathValue) ==
    LET n == Len(pathValue.ops)
        basePath == swagger.basePath
    IN  [element |-> "resource",
         path |-> pathValue.href,
         href |-> IF n = 0 THEN None
                  ELSE Some(buildUriTemplate(
                           basePath, pathValue.href, pathValue.parameters,
                           ParametersIn(pathValue.ops[n].parameters, {"query"}))),
         hrefVariables |-> PathHrefVariables(pathValue.parameters),
         content |-> [i \in 1..n |-> TransitionOf(pathValue.ops[i])]]

PathCalls(pathValue) ==
    PathParameterCalls(pathValue.href, pathValue.parameters)
    \o Concat([i \in 1..Len(pathValue.ops) |->
                  OperationCalls(pathValue.href, pathValue.ops[i])])

\* the annotations asked for while the root Category is built (lines 383-420)
RootCalls(swagger) ==
    (IF swagger.host # None /\ Len(swagger.schemes) > 1
     THEN <<Call(DATA_LOST, Some(<<Piece("schemes")>>),
                 "Only the first scheme will be used to create a hostname")>>
     ELSE <<>>)
    \o (IF swagger.securityDefinitions
        THEN <<Call(DATA_LOST, Some(<<Piece("securityDefinitions")>>),
                    "Authentication information is not yet supported")>>
        ELSE <<>>)
    \o (IF swagger.security
        THEN <<Call(DATA_LOST, Some(<<Piece("security")>>),
                    "Authentication information is not yet supported")>>
        ELSE <<>>)
    \o (IF swagger.externalDocs
        THEN <<Call(DATA_LOST, Some(<<Piece("externalDocs")>>),
                    "External documentation is not yet supported")>>
        ELSE <<>>)

ResourceGroup(title, content) ==
    [element |-> "category", classes |-> <<"resourceGroup">>, title |-> title,
     content |-> content]

IsGroup(el, title) == el.element = "category" /\ el.title = title

\* api.content after group.content.push(resource), where the group is the
\* root (<<>>) or the resource group titled target[1], created when missing
Place(content, target, resource) ==
    IF target = None THEN Append(content, resource)
    ELSE
      LET found == {i \in 1..Len(content) : IsGroup(content[i], target[1])} IN
      IF found = {}
      THEN Append(content, ResourceGroup(target[1], <<resource>>))
      ELSE LET g == CHOOSE i \in found : \A j \in found : i <= j
           IN  [content EXCEPT ![g].content = Append(@, resource)]

\* NextGroup with `group` declared inside the loop: a path without group
\* name goes back to the root
NextGroupPerPath(current, use, groupName) ==
    IF use /\ groupName # None THEN groupName ELSE None

\* `group` after the `if (useGroups)` block of one path
NextGroup(current, use, groupName) ==
    IF use /\ groupName # None THEN groupName ELSE current

---------------------------------------------------------------------------
(* The inputs of parse(): the `source` argument as what loading it gives,  *)
(* the generateSourceMap flag, and the validator's answer.                 *)
(*   load: "throws" (yaml.safeLoad throws), "null" (nothing or null is     *)
(*         loaded), "scalar" (a string, number or boolean), "object"       *)
(*   validation: [err, api, details], err whether validate reports an      *)
(*         error, api whether parser.api is defined, details err.details   *)

Input(isString, load, composeThrows, generateSourceMap, doc, validation) ==
    [isString |-> isString, load |-> load, composeThrows |-> composeThrows,
     generateSourceMap |-> generateSourceMap, doc |-> doc, validation |-> validation]

Valid == [err |-> FALSE, api |-> TRUE, details |-> None]
Fatal == [err |-> TRUE, api |-> FALSE, details |-> None]
Recoverable(details) == [err |-> TRUE, api |-> TRUE, details |-> details]

\* the ordered forests of n nodes; a tree is the sequence of its children
RECURSIVE Forests(_)
Forests(n) ==
    IF n = 0 THEN {<<>>}
    ELSE UNION {{<<t>> \o f : t \in Forests(k - 1), f \in Forests(n - k)} : k \in 1..n}

\* err.details of that shape: every item [message, path, inner], its message
\* the item's address in the tree, so that no two items are alike
RECURSIVE ErrorItems(_, _, _)
ErrorItems(forest, prefix, pathOpt) ==
    [i \in 1..Len(forest) |->
        [message |-> Append(prefix, i),
         path |-> pathOpt,
         inner |-> IF forest[i] = <<>> THEN None
                   ELSE Some(ErrorItems(forest[i], Append(prefix, i), pathOpt))]]

ErrorPaths ==
    {None, Some(<<>>), Some(<<Piece("paths")>>), Some(<<Piece("nosuch")>>)}

Validations ==
    {Valid, Fatal, Recoverable(None)}
    \cup {Recoverable(Some(ErrorItems(f, <<>>, p))) :
             f \in UNION {Forests(n) : n \in 0..MaxErrItems}, p \in ErrorPaths}

TagLists == {<<"t">>, <<"u">>, <<"t", "u">>}
Places == {"query", "path", "body", "formData", "header"}
Codes == <<"200", "default", "x-r">>
ContentTypes == <<"application/json", "text/plain", "schema">>

\* the subsequences of s of at most n elements
SubSeqsUpTo(s, n) ==
    {SelectSeq(s, LAMBDA x : x \in keep) :
        keep \in {k \in SUBSET Range(s) : Cardinality(k) <= n}}

\* the operations of one path, one per method in the order of Methods, with
\* the given tags
TaggedOperations(tagLists) ==
    [i \in 1..Len(tagLists) |-> Operation(Methods[i], tagLists[i], <<>>, None)]

\* the lists of k path items that declare at most n operations altogether
RECURSIVE TaggedPathLists(_, _)
TaggedPathLists(k, n) ==
    IF k = 0 THEN {<<>>}
    ELSE UNION {
           {Append(paths, PathItem(Hrefs[k], <<>>, TaggedOperations(tagLists))) :
               paths \in TaggedPathLists(k - 1, n - m),
               tagLists \in [1..m -> TagLists]}
           : m \in 0..n}

\* at most MaxPaths paths, at most MaxOps operations in the document
TaggedPaths == UNION {TaggedPathLists(k, MaxOps) : k \in 0..MaxPaths}

ParamNames == <<"p1", "p2", "p3", "p4">>
NamedParams(places) == [i \in 1..Len(places) |-> Param(ParamNames[i], places[i])]

ParamLists == {NamedParams(places) : places \in SeqsUpTo(Places, MaxParams)}

\* the responses of an operation: at most MaxResponses of the codes, each
\* kept one with no `examples` or at most MaxExamples of the content types
ResponseLists ==
    UNION {
        {[i \in 1..Len(codes) |-> [code |-> codes[i], examples |-> ex[i]]] :
            ex \in [1..Len(codes) ->
                     {None} \cup {Some(e) : e \in SubSeqsUpTo(ContentTypes, MaxExamples)}]}
        : codes \in SubSeqsUpTo(Codes, MaxResponses)}

OneOperation(params, responses) ==
    Document(<<PathItem("/a", <<>>, <<Operation("get", <<>>, params, responses)>>)>>)

\* only a string source is loaded by yaml.safeLoad, which may throw
LoadInputs ==
    {Input(how[1], how[2], FALSE, gsm, Document(<<>>), Valid) :
        how \in {<<TRUE, "throws">>, <<TRUE, "null">>, <<TRUE, "scalar">>,
                 <<FALSE, "null">>, <<FALSE, "scalar">>},
        gsm \in BOOLEAN}

GroupingInputs ==
    {Input(FALSE, "object", FALSE, FALSE, Document(paths), Valid) : paths \in TaggedPaths}

PathParameterInputs ==
    {Input(TRUE, "object", FALSE, gsm,
           Document(<<PathItem("/a", params, ops)>>), Valid) :
        params \in ParamLists, gsm \in BOOLEAN,
        ops \in {<<>>, <<Operation("get", <<>>, <<>>, None)>>}}

OperationParameterInputs ==
    {Input(TRUE, "object", FALSE, FALSE, OneOperation(params, None), Valid) :
        params \in ParamLists}

ResponseInputs ==
    {Input(FALSE, "object", FALSE, FALSE, OneOperation(params, responses), Valid) :
        params \in {<<>>, NamedParams(<<"body">>)},
        responses \in {None} \cup {Some(r) : r \in ResponseLists}}

RootDocuments ==
    {[Document(<<>>) EXCEPT !.host = host, !.schemes = schemes,
                            !.securityDefinitions = sd, !.security = sec,
                            !.externalDocs = ed] :
        host \in {None, Some("api.example.com")},
        schemes \in {<<>>, <<"https">>, <<"https", "http">>},
        sd \in BOOLEAN, sec \in BOOLEAN, ed \in BOOLEAN}

RootInputs ==
    {Input(isString, "object", FALSE, gsm, doc, Valid) :
        isString \in BOOLEAN, gsm \in BOOLEAN, doc \in RootDocuments}

\* the values of a declared type a parameter may name as its default
Types == {"string", "integer", "number", "boolean", "array", "file"}
DefaultsOf(type) ==
    CASE type \in {"integer", "number"} -> {Number(n) : n \in 0..MaxDefault}
      [] type = "boolean" -> {Boolean(b) : b \in BOOLEAN}
      [] type = "array" -> {Array(n) : n \in 0..MaxDefault}
      [] OTHER -> {String(""), String("x")}

DefaultParams ==
    UNION {{TypedParam("p1", where, type, required, default) :
               where \in {"query", "path"}, required \in BOOLEAN,
               default \in {None} \cup {Some(d) : d \in DefaultsOf(type)}}
           : type \in Types}

\* one typed parameter, declared on the path or on its operation
DefaultInputs ==
    {Input(TRUE, "object", FALSE, FALSE,
           Document(<<PathItem("/a", IF onPath THEN <<p>> ELSE <<>>,
                               <<Operation("get", <<>>,
                                           IF onPath THEN <<>> ELSE <<p>>, None)>>)>>),
           Valid) :
        p \in DefaultParams, onPath \in BOOLEAN}

BodyParameterDocument ==
    Document(<<PathItem("/a", NamedParams(<<"body">>),
                        <<Operation("get", <<"t">>, <<>>, None)>>)>>)

ValidationInputs ==
    {Input(how[1], "object", how[2], gsm, doc, validation) :
        how \in {<<FALSE, FALSE>>, <<TRUE, FALSE>>, <<TRUE, TRUE>>},
        gsm \in BOOLEAN,
        doc \in {Document(<<>>), BodyParameterDocument},
        validation \in {Valid, Fatal, Recoverable(None)}}
    \cup {Input(TRUE, "object", FALSE, gsm, BodyParameterDocument, validation) :
             gsm \in BOOLEAN, validation \in Validations}

Inputs ==
    LoadInputs \cup GroupingInputs \cup PathParameterInputs
    \cup OperationParameterInputs \cup ResponseInputs \cup RootInputs
    \cup ValidationInputs \cup DefaultInputs

---------------------------------------------------------------------------
(* parse(): the state machine.                                             *)
(*   pc: "start"      parse() is about to be called                        *)
(*       "validating" parser.validate was called, its callback is pending  *)
(*       "worklist"   the callback is in the while loop over the queue     *)
(*       "build"      the callback is about to build the root Category     *)
(*       "paths"      the callback is in the _.each over swagger.paths     *)
(*       "returned"   done was called and parse / the callback returned    *)
(*       "threw"      a TypeError left parse / the callback               *)
(*       "hung"       getPosition does not return                         *)

\* getPosition() on its own is not running while parse() is explored
ResolverIdle ==
    /\ gpc = "idle"
    /\ gast = None
    /\ gpath = <<>>
    /\ gnode = None
    /\ gpiece = None
    /\ gpieces = <<>>
    /\ gstart = None
    /\ gend = None
    /\ gposition = None

Init ==
    /\ pc = "start"
    /\ input \in Inputs
    /\ ast = None
    /\ result = <<>>
    /\ apiContent = <<>>
    /\ group = None
    /\ useGroups = FALSE
    /\ groupNames = <<>>
    /\ queue = <<>>
    /\ pathIdx = 0
    /\ doneCalls = <<>>
    /\ ResolverIdle

swagger == input.doc

Done(err, content, tree) == [err |-> err, result |-> content, api |-> tree]

AfterCalls(failure, next) ==
    IF failure = "none" THEN next
    ELSE IF failure = "throws" THEN "threw" ELSE "hung"

\* lines 288-295: loading the source throws
ParseCannotLoad ==
    /\ UNCHANGED resolver
    /\ pc = "start"
    /\ input.load = "throws"
    /\ result' = Emit(None, <<Call(CANNOT_PARSE, None, "Problem loading the input")>>)
    /\ doneCalls' = Append(doneCalls, Done(None, result', apiContent))
    /\ pc' = "returned"
    /\ UNCHANGED <<input, ast, apiContent, group, useGroups, groupNames, queue, pathIdx>>

\* lines 288-324: the source is loaded, the AST composed, the defaults set
\* (`loaded.info` of null, and the assignment to a property of a primitive
\* in strict mode, throw a TypeError) and parser.validate called
ParseLoaded ==
    /\ UNCHANGED resolver
    /\ pc = "start"
    /\ input.load # "throws"
    /\ ast' = IF input.isString /\ ~input.composeThrows /\ input.load # "null"
              THEN Some(IF input.load = "object" THEN compose(input.doc)
                        ELSE Scalar("text", 0, 1))
              ELSE None
    /\ result' =
         IF input.isString
         THEN IF input.composeThrows
              THEN Emit(None, <<Call(AST_UNAVAILABLE, None,
                     "Input AST could not be composed, so source maps will not be available")>>)
              ELSE <<>>
         ELSE Emit(None, <<Call(AST_UNAVAILABLE, None,
                     "Source maps are only available with string input")>>)
    /\ pc' = IF input.load = "object" THEN "validating" ELSE "threw"
    /\ UNCHANGED <<input, apiContent, group, useGroups, groupNames, queue, pathIdx,
                   doneCalls>>

\* lines 324-335: the callback of parser.validate, up to the worklist
ValidateCallback ==
    /\ UNCHANGED resolver
    /\ pc = "validating"
    /\ LET v == input.validation IN
       IF v.err /\ ~v.api
       THEN /\ doneCalls' = Append(doneCalls, Done(Some("err"), result, apiContent))
            /\ pc' = "returned"
            /\ queue' = queue
       ELSE /\ doneCalls' = doneCalls
            /\ IF v.err /\ v.details # None
               THEN queue' = <<v.details[1]>> /\ pc' = "worklist"
               ELSE queue' = queue /\ pc' = "build"
    /\ UNCHANGED <<input, ast, result, apiContent, group, useGroups, groupNames, pathIdx>>

\* the annotations asked for by the `for (const item of queue[0])` loop
ItemCalls(items) ==
    [i \in 1..Len(items) |-> Call(VALIDATION_ERROR, items[i].path, items[i].message)]

\* InnerLists that stops at the first item that has an `inner`
InnerListsOfFirst(items) ==
    LET withInner == SelectSeq(items, LAMBDA item : item.inner # None)
    IN  IF withInner = <<>> THEN <<>> ELSE <<withInner[1].inner[1]>>

\* what the loop pushes on the queue: item.inner of every item that has one
InnerLists(items) ==
    LET withInner == SelectSeq(items, LAMBDA item : item.inner # None)
    IN  [i \in 1..Len(withInner) |-> withInner[i].inner[1]]

\* lines 336-350: one iteration of `while (queue.length)`
WorklistStep ==
    /\ UNCHANGED resolver
    /\ pc = "worklist"
    /\ queue # <<>>
    /\ LET calls == ItemCalls(queue[1])
           failure == Failure(ast, calls)
           rest == Tail(queue \o InnerLists(queue[1]))
       IN  /\ result' = result \o Emit(ast, calls)
           /\ queue' = rest
           /\ pc' = AfterCalls(failure, IF rest = <<>> THEN "build" ELSE "worklist")
    /\ UNCHANGED <<input, ast, apiContent, group, useGroups, groupNames, pathIdx,
                   doneCalls>>

RootCategory == [element |-> "category", classes |-> <<"api">>]

\* lines 354-423: the root Category, the root-level annotations and the
\* grouping decision
BuildRoot ==
    /\ UNCHANGED resolver
    /\ pc = "build"
    /\ LET calls == RootCalls(swagger)
           groups == useResourceGroups(swagger)
       IN  /\ result' = Append(result, RootCategory) \o Emit(ast, calls)
           /\ useGroups' = groups.use
           /\ groupNames' = groups.names
           /\ pc' = AfterCalls(Failure(ast, calls), "paths")
    /\ group' = None
    /\ pathIdx' = 0
    /\ UNCHANGED <<input, ast, apiContent, queue, doneCalls>>

\* lines 427-731: one iteration of the _.each over swagger.paths
BuildPath ==
    /\ UNCHANGED resolver
    /\ pc = "paths"
    /\ pathIdx < Len(swagger.paths)
    /\ LET pathValue == swagger.paths[pathIdx + 1]
           calls == PathCalls(pathValue)
           target == NextGroup(group, useGroups, groupNames[pathIdx + 1])
       IN  /\ group' = target
           /\ apiContent' = Place(apiContent, target, ResourceOf(swagger, pathValue))
           /\ result' = result \o Emit(ast, calls)
           /\ pc' = AfterCalls(Failure(ast, calls), "paths")
    /\ pathIdx' = pathIdx + 1
    /\ UNCHANGED <<input, ast, useGroups, groupNames, queue, doneCalls>>

\* line 733: done(null, parseResult)
Complete ==
    /\ UNCHANGED resolver
    /\ pc = "paths"
    /\ pathIdx = Len(swagger.paths)
    /\ doneCalls' = Append(doneCalls, Done(None, result, apiContent))
    /\ pc' = "returned"
    /\ UNCHANGED <<input, ast, result, apiContent, group, useGroups, groupNames, queue,
                   pathIdx>>

Next ==
    \/ ParseCannotLoad
    \/ ParseLoaded
    \/ ValidateCallback
    \/ WorklistStep
    \/ BuildRoot
    \/ BuildPath
    \/ Complete

Spec == Init /\ [][Next]_vars

---------------------------------------------------------------------------
(* getPosition() on its own: the state machine of its while loop.          *)
(*   gpc: "idle"     getPosition() is not explored                         *)
(*        "loop"     at the test of `while (piece)`                        *)
(*        "returned" getPosition() returned null or {start, end}           *)
(*        "threw"    a TypeError left getPosition()                        *)
(*                                                                         *)
(* The documents it is given hold a definition P with a scalar n and a     *)
(* sequence t of `len` mappings, references to P (a, d.Q), a reference to  *)
(* a reference (b), an external reference (x) and, when `cyclic`, two      *)
(* references to each other (c1, c2) and one to itself (s):                *)
(*   d: {P: {n: text, t: [{n: text}, ...]}, Q: {$ref: '#/d/P'}}            *)
(*   a: {$ref: '#/d/P'}    b: {$ref: '#/d/Q'}    x: {$ref: 'other#/d/P'}   *)
(*   c1: {$ref: '#/c2'}    c2: {$ref: '#/c1'}    s: {$ref: '#/s'}          *)

MaxSeqLen == 11
MaxIterations == 16

ReferenceTo(parts) == MapShape(<<Entry("$ref", RefShape(parts))>>)

ResolverShape(len, cyclic) ==
    MapShape(
        <<Entry("d", MapShape(
              <<Entry("P", MapShape(
                    <<Entry("n", ScalarShape),
                      Entry("t", SeqShape([i \in 1..len |->
                                              MapShape(<<Entry("n", ScalarShape)>>)]))>>)),
                Entry("Q", ReferenceTo(<<"#", "d", "P">>))>>)),
          Entry("a", ReferenceTo(<<"#", "d", "P">>)),
          Entry("b", ReferenceTo(<<"#", "d", "Q">>)),
          Entry("x", ReferenceTo(<<"other#", "d", "P">>))>>
        \o (IF cyclic
            THEN <<Entry("c1", ReferenceTo(<<"#", "c2">>)),
                   Entry("c2", ReferenceTo(<<"#", "c1">>)),
                   Entry("s", ReferenceTo(<<"#", "s">>))>>
            ELSE <<>>))

ResolverAst(len, cyclic) == Layout(ResolverShape(len, cyclic), 0)

AcyclicAsts == {ResolverAst(len, FALSE) : len \in 0..MaxSeqLen}
CyclicAsts == {ResolverAst(len, TRUE) : len \in 0..MaxSeqLen}

\* the paths: where the definition is entered (directly, through a
\* reference, through a reference to a reference, ...) and what is asked
\* of it, with every index up to MaxSeqLen
Heads ==
    {<<Piece("d"), Piece("P")>>, <<Piece("d"), Piece("Q")>>, <<Piece("a")>>,
     <<Piece("b")>>, <<Piece("x")>>, <<Piece("z")>>, <<Piece("c1")>>, <<Piece("s")>>}

Tails ==
    {<<>>, <<Piece("n")>>, <<Piece("t")>>, <<Piece("z")>>}
    \cup {<<IndexedPiece("t", n)>> : n \in 0..MaxSeqLen}
    \cup {<<IndexedPiece("t", n), Piece("n")>> : n \in 0..MaxSeqLen}

\* an index on a key whose value is a mapping or a scalar
IndexedNonSequence ==
    {<<IndexedPiece("d", 0), Piece("P")>>,
     <<Piece("d"), Piece("P"), IndexedPiece("n", 0)>>,
     <<Piece("d"), Piece("P"), IndexedPiece("n", 0), Piece("z")>>}

ResolverPaths ==
    {h \o t : h \in Heads, t \in Tails}
    \cup IndexedNonSequence \cup {<<>>, <<Piece("")>>}

\* parse() is not running while getPosition() is explored on its own
ParserIdle ==
    /\ pc = "idle"
    /\ input = None
    /\ ast = None
    /\ result = <<>>
    /\ apiContent = <<>>
    /\ group = None
    /\ useGroups = FALSE
    /\ groupNames = <<>>
    /\ queue = <<>>
    /\ pathIdx = 0
    /\ doneCalls = <<>>

\* lines 92-96: getPosition(ast, path) up to the first test of the loop
GetPositionInit ==
    /\ ParserIdle
    /\ gpc = "loop"
    /\ gast \in AcyclicAsts \cup CyclicAsts
    /\ gpath \in ResolverPaths
    /\ gnode = gast
    /\ gpiece = Shift(gpath)
    /\ gpieces = Rest(gpath)
    /\ gstart = None
    /\ gend = None
    /\ gposition = None

\* lines 99-149, the body of the loop for a truthy piece: how it leaves
\* ("next": on to line 151; "null": return null; "throws": a TypeError),
\* the `node` and `pieces` it leaves and the `start` and `end` it assigns
Iteration(root, node, piece, pieces) ==
    LET name == MatchName(piece)
        index == MatchIndex(piece)
        hit == FirstHit(node, name)
        leave(kind) ==
            [kind |-> kind, node |-> node, pieces |-> pieces,
             start |-> None, end |-> None]
    IN  IF ~IsNode(node) THEN leave("throws")
        ELSE IF hit = 0 THEN leave("null")
        ELSE
          LET subNode == node.value[hit] IN
          IF subNode[1].value = name
          THEN
            IF pieces # <<>>
            THEN LET newNode == IF index = None THEN Some(subNode[2])
                                ELSE ElementAt(subNode[2], index[1])
                 IN  IF newNode = None THEN leave("null")
                     ELSE [leave("next") EXCEPT !.node = newNode[1]]
            ELSE IF index # None
            THEN LET newNode == ElementAt(subNode[2], index[1])
                 IN  IF newNode = None \/ ~IsNode(newNode[1]) THEN leave("throws")
                     ELSE [leave("next") EXCEPT !.node = newNode[1],
                                                !.start = Some(newNode[1].start_mark),
                                                !.end = Some(newNode[1].end_mark)]
            ELSE [leave("next") EXCEPT !.node = subNode[1],
                                       !.start = Some(subNode[1].start_mark),
                                       !.end = Some(subNode[2].end_mark)]
          ELSE
            LET refPaths == [i \in 1..(Len(subNode[2].ref) - 1) |->
                                Piece(subNode[2].ref[i + 1])]
            IN  [leave("next") EXCEPT !.node = root,
                                      !.pieces = refPaths \o <<Piece(name)>> \o pieces]

Outcome(kind, start, end) == [kind |-> kind, start |-> start, end |-> end]

\* lines 98-151: one iteration of `while (piece)`
GetPositionIteration ==
    /\ UNCHANGED parser
    /\ gpc = "loop"
    /\ Truthy(gpiece)
    /\ LET it == Iteration(gast, gnode, gpiece[1], gpieces) IN
       IF it.kind = "next"
       THEN /\ gpc' = "loop"
            /\ gnode' = it.node
            /\ gpiece' = Shift(it.pieces)
            /\ gpieces' = Rest(it.pieces)
            /\ gstart' = IF it.start # None THEN it.start ELSE gstart
            /\ gend' = IF it.end # None THEN it.end ELSE gend
            /\ gposition' = gposition
       ELSE /\ gpc' = IF it.kind = "null" THEN "returned" ELSE "threw"
            /\ gposition' = Some(Outcome(it.kind, None, None))
            /\ UNCHANGED <<gnode, gpiece, gpieces, gstart, gend>>
    /\ UNCHANGED <<gast, gpath>>

\* lines 98 and 154: the piece is undefined or '', `return {start, end}`
GetPositionReturn ==
    /\ UNCHANGED parser
    /\ gpc = "loop"
    /\ ~Truthy(gpiece)
    /\ gpc' = "returned"
    /\ gposition' = Some(Outcome("range", gstart, gend))
    /\ UNCHANGED <<gast, gpath, gnode, gpiece, gpieces, gstart, gend>>

GetPositionNext ==
    \/ GetPositionIteration
    \/ GetPositionReturn

GetPositionSpec == GetPositionInit /\ [][GetPositionNext]_vars

---------------------------------------------------------------------------
(* Vocabulary of the properties. *)

Ended == pc \in {"returned", "threw", "hung"}

Annotations(content) == SelectSeq(content, LAMBDA el : el.element = "annotation")
Categories(content) == SelectSeq(content, LAMBDA el : el.element = "category")

WithCode(content, info) ==
    SelectSeq(Annotations(content), LAMBDA a : a.code = info.code)

\* the Resources of the tree, those of a resource group in its place
Resources(content) ==
    Concat([i \in 1..Len(content) |->
               IF content[i].element = "resource" THEN <<content[i]>>
               ELSE content[i].content])

Groups(content) ==
    SelectSeq(content, LAMBDA el : el.element = "category")

AllOperations(doc) == Concat([i \in 1..Len(doc.paths) |-> doc.paths[i].ops])

---------------------------------------------------------------------------
(* C1: for every input given to parse, `done` is invoked exactly once,     *)
(* never zero times and never twice: it is never called a second time, and *)
(* once parse and the callback of validate have ended it was called once.  *)
C1_DoneExactlyOnce ==
    /\ Len(doneCalls) <= 1
    /\ Ended => Len(doneCalls) = 1

(* C2: for every input whose top-level value is not an object, parse       *)
(* produces a Result holding exactly one diagnostic, of the CANNOT_PARSE   *)
(* kind (severity error, code 1), and no Category.                         *)
C2_NonObjectCannotParse ==
    (Ended /\ input.load # "object") =>
        /\ Len(doneCalls) = 1
        /\ LET content == doneCalls[1].result IN
           /\ Len(Annotations(content)) = 1
           /\ Annotations(content)[1].code = CANNOT_PARSE.code
           /\ Annotations(content)[1].classes = <<"error">>
           /\ Categories(content) = <<>>

(* C3: in both fatal cases (the input cannot be loaded; validation fails   *)
(* and no usable API object exists) the callback receives a non-null error *)
(* and a Result without Category; in every other case it receives a null   *)
(* error and a Result with exactly one root Category classed `api`.        *)
FatalCase ==
    \/ input.load = "throws"
    \/ input.validation.err /\ ~input.validation.api

C3_FatalCasesGetAnError ==
    \A i \in 1..Len(doneCalls) :
        LET call == doneCalls[i] IN
        IF FatalCase
        THEN call.err # None /\ Categories(call.result) = <<>>
        ELSE /\ call.err = None
             /\ Len(Categories(call.result)) = 1
             /\ Categories(call.result)[1].classes = <<"api">>

(* C4: if any operation carries more than one tag, or two operations of    *)
(* one path carry different tags, grouping is disabled for the whole       *)
(* document: useResourceGroups reports false, no resource-group Category   *)
(* is created and every Resource is a direct child of the root Category.   *)
GroupingDisqualified(doc) ==
    \E i \in 1..Len(doc.paths) :
        LET ops == doc.paths[i].ops IN
        \/ \E j \in 1..Len(ops) : Len(ops[j].tags) > 1
        \/ \E j, k \in 1..Len(ops) :
              /\ ops[j].tags # <<>>
              /\ ops[k].tags # <<>>
              /\ ops[j].tags # ops[k].tags

C4_MixedTagsDisableGrouping ==
    (pc \in {"paths", "returned"} /\ GroupingDisqualified(swagger)) =>
        /\ ~useGroups
        /\ Groups(apiContent) = <<>>
        /\ \A i \in 1..Len(apiContent) : apiContent[i].element = "resource"

(* C5 as stated: for every document in which every operation carries the   *)
(* same single tag t, grouping is enabled, exactly one resource-group      *)
(* Category titled t exists under the root and every Resource of the       *)
(* document is a child of that Category, none directly under the root,     *)
(* whatever the order of the paths and whether or not a path declares any  *)
(* operation.                                                              *)
AllTagged(doc, t) ==
    /\ AllOperations(doc) # <<>>
    /\ \A i \in 1..Len(AllOperations(doc)) : AllOperations(doc)[i].tags = <<t>>

HrefsOf(resources) == [i \in 1..Len(resources) |-> resources[i].path]
DocumentHrefs(doc) == [i \in 1..Len(doc.paths) |-> doc.paths[i].href]

C5_AllResourcesInTheGroup ==
    \A t \in {"t", "u"} :
        (pc = "returned" /\ doneCalls[1].err = None /\ AllTagged(swagger, t)) =>
            /\ useGroups
            /\ Len(apiContent) = 1
            /\ IsGroup(apiContent[1], t)
            /\ HrefsOf(apiContent[1].content) = DocumentHrefs(swagger)

(* C5 amended: for every document in which every operation carries the     *)
(* same single tag t (and some path declares an operation), grouping is    *)
(* enabled, exactly one resource-group Category titled t exists under the  *)
(* root, and every Resource is in exactly one place: the Resources of the  *)
(* paths before the first path that declares an operation are direct       *)
(* children of the root, and the Resources of all the paths from that one  *)
(* on, with or without operation, are the children of the Category, in     *)
(* path order.                                                             *)
FirstWithOperation(doc) ==
    CHOOSE i \in 1..Len(doc.paths) :
        /\ doc.paths[i].ops # <<>>
        /\ \A j \in 1..(i - 1) : doc.paths[j].ops = <<>>

C5_ResourcesFromTheFirstTaggedPathInTheGroup ==
    \A t \in {"t", "u"} :
        (pc = "returned" /\ doneCalls[1].err = None /\ AllTagged(swagger, t)) =>
            LET first == FirstWithOperation(swagger)
                hrefs == DocumentHrefs(swagger)
            IN  /\ useGroups
                /\ Len(apiContent) = first
                /\ \A i \in 1..(first - 1) :
                      /\ apiContent[i].element = "resource"
                      /\ apiContent[i].path = hrefs[i]
                /\ IsGroup(apiContent[first], t)
                /\ HrefsOf(apiContent[first].content)
                      = SubSeq(hrefs, first, Len(hrefs))

\* a document of one tag where a path without operation follows a tagged one
C5_Witness ==
    /\ pc = "returned"
    /\ AllTagged(swagger, "t")
    /\ Len(swagger.paths) = 2
    /\ swagger.paths[2].ops = <<>>
    /\ Len(apiContent) = 1
    /\ Len(apiContent[1].content) = 2

(* C6: when parse completes successfully, every Resource in the tree has   *)
(* an href attribute holding a non-empty string, whatever parameters and   *)
(* whatever (possibly zero) operations the path item declares.             *)
NonEmptyText(parts) == \E i \in 1..Len(parts) : parts[i] # ""

C6_EveryResourceHasAnHref ==
    (pc = "returned" /\ doneCalls[1].err = None /\ input.load = "object") =>
        \A i \in 1..Len(Resources(doneCalls[1].api)) :
            LET resource == Resources(doneCalls[1].api)[i] IN
            /\ resource.href # None
            /\ NonEmptyText(resource.href[1])

(* C7: every path-level parameter located in `body` or `formData` yields   *)
(* one DATA_LOST diagnostic (one per occurrence) and is never added to the *)
(* Resource's HrefVariables; path-level parameters located in `query` or   *)
(* `path` yield no diagnostic and become HrefVariables members in          *)
(* declaration order.                                                      *)
ParameterPath(href, i) == <<Piece("paths"), Piece(href), IndexedPiece("parameters", i - 1)>>

LostAt(content, path) ==
    Len(SelectSeq(WithCode(content, DATA_LOST), LAMBDA a : a.path = Some(path)))

MemberKeys(hrefVariables) ==
    IF hrefVariables = None THEN <<>>
    ELSE [i \in 1..Len(hrefVariables[1]) |-> hrefVariables[1][i].key]

NamesIn(parameters, places) ==
    LET kept == SelectSeq(parameters, LAMBDA q : q.in \in places)
    IN  [i \in 1..Len(kept) |-> kept[i].name]

C7_PathLevelBodyAndFormDataAreReported ==
    (pc = "returned" /\ doneCalls[1].err = None /\ input.load = "object") =>
        \A i \in 1..Len(swagger.paths) :
            LET pathValue == swagger.paths[i]
                resource == Resources(apiContent)[i]
            IN  /\ \A j \in 1..Len(pathValue.parameters) :
                      LostAt(result, ParameterPath(pathValue.href, j))
                        = IF pathValue.parameters[j].in \in {"body", "formData"}
                          THEN 1 ELSE 0
                /\ MemberKeys(resource.hrefVariables)
                      = NamesIn(pathValue.parameters, {"query", "path"})

(* C8: when validation reports an error but a usable API object exists,    *)
(* the worklist over the error's details terminates and appends exactly    *)
(* one VALIDATION_ERROR diagnostic per error item, each top-level item and *)
(* each nested `inner` item, none skipped and none duplicated, in          *)
(* breadth-first order; construction then continues and produces the root  *)
(* Category.                                                               *)
\* the items of a forest level by level, each level from left to right
RECURSIVE BreadthFirst(_)
BreadthFirst(items) ==
    IF items = <<>> THEN <<>>
    ELSE items \o BreadthFirst(
            Concat([i \in 1..Len(items) |->
                       IF items[i].inner = None THEN <<>> ELSE items[i].inner[1]]))

Messages(items) == [i \in 1..Len(items) |-> items[i].message]

RecoverableWithDetails ==
    /\ input.validation.err
    /\ input.validation.api
    /\ input.validation.details # None

WorklistIsOver == pc \in {"build", "paths", "returned"}

\* (an error without `details` has no item, and gets no diagnostic)
C8_OneDiagnosticPerItem ==
    (input.validation.err /\ input.validation.api /\ WorklistIsOver) =>
        Messages(WithCode(result, VALIDATION_ERROR))
            = IF input.validation.details = None THEN <<>>
              ELSE Messages(BreadthFirst(input.validation.details[1]))

\* what the worklist still has to do: the lists in the queue and the items
\* in them, nested ones included
RECURSIVE ItemCount(_)
ItemCount(items) ==
    IF items = <<>> THEN 0
    ELSE 1 + (IF Head(items).inner = None THEN 0 ELSE ItemCount(Head(items).inner[1]))
         + ItemCount(Tail(items))

RECURSIVE Pending(_)
Pending(lists) ==
    IF lists = <<>> THEN 0 ELSE 1 + ItemCount(Head(lists)) + Pending(Tail(lists))

C8_ValidationWorklist ==
    /\ [](C8_OneDiagnosticPerItem)
    \* the loop goes on while the queue is not empty, and every iteration
    \* leaves less to do: it ends
    /\ [](pc = "worklist" => queue # <<>>)
    /\ [][pc = "worklist" =>
            /\ Pending(queue') < Pending(queue)
            /\ pc' = IF queue' = <<>> THEN "build" ELSE "worklist"]_vars
    \* construction continues: the root Category follows the diagnostics
    /\ [][pc = "build" =>
            /\ pc' = "paths"
            /\ Categories(result) = <<>>
            /\ Len(Categories(result')) = 1]_vars
    /\ []((pc = "returned" /\ RecoverableWithDetails) =>
            /\ doneCalls[1].err = None
            /\ Len(Categories(doneCalls[1].result)) = 1)

\* an error whose first item has a nested item, and a second item after it:
\* breadth-first and depth-first order differ
C8_Witness ==
    /\ pc = "returned"
    /\ RecoverableWithDetails
    /\ Len(input.validation.details[1]) = 2
    /\ input.validation.details[1][1].inner # None
    /\ input.validation.details[1][1].inner[1][1].inner # None
    /\ Len(WithCode(result, VALIDATION_ERROR)) = 4

(* C9: every emission appends one Diagnostic, and the Diagnostic carries a *)
(* SourceMap if and only if a path was provided, source-map generation is  *)
(* enabled (the generateSourceMap flag) and the resolver returns a valid   *)
(* range for the path; with source-map generation disabled no Diagnostic   *)
(* in the Result has a SourceMap.                                          *)
ResolverGivesValidRange(path) ==
    /\ ast # None
    /\ ValidPosition(getPosition(ast[1], path))

C9_SourceMapOnlyWhenEnabled ==
    \A i \in 1..Len(Annotations(result)) :
        LET a == Annotations(result)[i] IN
        (a.sourceMap # None) <=>
            /\ a.path # None
            /\ input.generateSourceMap
            /\ ResolverGivesValidRange(a.path[1])

(* C10: for every operation and every status code kept after dropping      *)
(* `default` and extension keys, the number of Transactions appended to    *)
(* the Transition for that status code equals the number of keys of the    *)
(* response's `examples` other than `schema`, and exactly one when the     *)
(* response has no `examples`; each such Transaction holds exactly one     *)
(* Request and one Response, and for a non-empty content type its Response *)
(* has a Content-Type header member equal to that example key, so that two *)
(* example content types yield two Transactions with distinct Content-Type *)
(* members.                                                                *)
KeptCode(code) == code # "default" /\ code \notin ExtensionKeys

TransactionsFor(transition, code) ==
    SelectSeq(transition.content, LAMBDA tx : tx.response.statusCode = Some(code))

ContentTypeOf(tx) ==
    IF tx.response.headers = None THEN {}
    ELSE {tx.response.headers[1][i].value :
             i \in {j \in 1..Len(tx.response.headers[1]) :
                       tx.response.headers[1][j].key = "Content-Type"}}

C10_OneTransactionPerExample ==
    \A i \in 1..Len(Resources(apiContent)) :
        LET resource == Resources(apiContent)[i]
            pathValue == swagger.paths[i]
        IN  \A j \in 1..Len(pathValue.ops) :
              LET responses == IF pathValue.ops[j].responses = None THEN <<>>
                               ELSE pathValue.ops[j].responses[1]
                  transition == resource.content[j]
              IN  \A r \in 1..Len(responses) :
                    KeptCode(responses[r].code) =>
                      LET txs == TransactionsFor(transition, responses[r].code)
                          types == IF responses[r].examples = None THEN {}
                                   ELSE Range(responses[r].examples[1]) \ {"schema"}
                      IN  /\ Len(txs) = IF responses[r].examples = None THEN 1
                                        ELSE Cardinality(types)
                          /\ \A k \in 1..Len(txs) :
                                txs[k].content = <<"httpRequest", "httpResponse">>
                          /\ \A k \in 1..Len(txs) :
                                Cardinality(ContentTypeOf(txs[k]) \cap types)
                                   = IF types = {} THEN 0 ELSE 1
                          /\ \A c \in types \ {""} :
                                Cardinality({k \in 1..Len(txs) :
                                                ContentTypeOf(txs[k]) = {c}}) = 1

\* a response with two example content types, and its two transactions
C10_Witness ==
    /\ pc = "returned"
    /\ Len(swagger.paths) = 1
    /\ Len(swagger.paths[1].ops) = 1
    /\ swagger.paths[1].ops[1].responses # None
    /\ \E r \in 1..Len(swagger.paths[1].ops[1].responses[1]) :
          LET response == swagger.paths[1].ops[1].responses[1][r] IN
          /\ response.code = "200"
          /\ response.examples = Some(<<"application/json", "text/plain">>)
          /\ Len(TransactionsFor(Resources(apiContent)[1].content[1], "200")) = 2

---------------------------------------------------------------------------
(* C11: for every parameter definition that declares a default value, of   *)
(* whatever value of the declared type (zero, false and the empty string   *)
(* included), the member convertParameterToElement returns carries that    *)
(* value as the `default` attribute of its value placeholder and never as  *)
(* an attribute of the member itself; when no default is declared the      *)
(* placeholder has no `default` attribute.  Stated of every member of the  *)
(* HrefVariables of a Resource and of a Transition of the finished tree.   *)
AttributesNamed(element, key) ==
    SelectSeq(element.attributes, LAMBDA a : a.key = key)

DefaultIsOnTheValue(parameter, member) ==
    /\ member.key = parameter.name
    /\ AttributesNamed(member, "default") = <<>>
    /\ AttributesNamed(member.value, "default")
          = IF parameter.default # None
            THEN <<Attribute("default", parameter.default[1])>>
            ELSE <<>>

MembersMatch(parameters, hrefVariables) ==
    LET uri == ParametersIn(parameters, {"query", "path"})
        members == IF hrefVariables = None THEN <<>> ELSE hrefVariables[1]
    IN  /\ Len(members) = Len(uri)
        /\ \A k \in 1..Len(uri) : DefaultIsOnTheValue(uri[k], members[k])

C11_DefaultIsSetOnTheValuePlaceholder ==
    (pc = "returned" /\ doneCalls[1].err = None /\ input.load = "object") =>
        \A i \in 1..Len(swagger.paths) :
            LET pathValue == swagger.paths[i]
                resource == Resources(apiContent)[i]
            IN  /\ MembersMatch(pathValue.parameters, resource.hrefVariables)
                /\ \A j \in 1..Len(pathValue.ops) :
                      MembersMatch(pathValue.ops[j].parameters,
                                   resource.content[j].hrefVariables)

---------------------------------------------------------------------------
(* Vocabulary of the properties of getPosition(). *)

GetPositionEnded == gpc \in {"returned", "threw"}

\* the current node holds an internal reference that this iteration follows
AtReference ==
    /\ gpc = "loop"
    /\ Truthy(gpiece)
    /\ IsNode(gnode)
    /\ LET hit == FirstHit(gnode, MatchName(gpiece[1]))
       IN  /\ hit # 0
           /\ gnode.value[hit][1].value # MatchName(gpiece[1])

ReferenceAt(node) == node.value[FirstHit(node, "$ref")][2].ref

\* the natural number a piece's digits write
RECURSIVE FromDigits(_)
FromDigits(ds) ==
    IF ds = <<>> THEN 0 ELSE 10 * FromDigits(SubSeq(ds, 1, Len(ds) - 1)) + ds[Len(ds)]

\* the span a path of keys and zero-based indices names when it crosses no
\* reference: <<>> when it names nothing, else <<[start, end]>>
RECURSIVE SpanAt(_, _)
SpanAt(node, pieces) ==
    LET piece == Head(pieces)
        hits == {i \in 1..Len(node.value) : node.value[i][1].value = piece.key}
        pair == node.value[CHOOSE i \in hits : \A j \in hits : i <= j]
        n == FromDigits(piece.idx)
        target == IF piece.idx = <<>> THEN Some(pair[2])
                  ELSE IF pair[2].tag = "seq" /\ n < Len(pair[2].value)
                  THEN Some(pair[2].value[n + 1])
                  ELSE None
    IN  IF pieces = <<>> \/ node.tag # "map" \/ hits = {} \/ target = None THEN None
        ELSE IF Len(pieces) > 1 THEN SpanAt(target[1], Tail(pieces))
        ELSE IF piece.idx = <<>>
        THEN Some([start |-> pair[1].start_mark, end |-> pair[2].end_mark])
        ELSE Some([start |-> target[1].start_mark, end |-> target[1].end_mark])

\* the iterations of the loop still to come, counted up to `fuel`
RECURSIVE IterationsLeft(_, _, _, _, _)
IterationsLeft(root, node, pieceOpt, pieces, fuel) ==
    IF ~Truthy(pieceOpt) \/ fuel = 0 THEN 0
    ELSE LET it == Iteration(root, node, pieceOpt[1], pieces)
         IN  IF it.kind # "next" THEN 1
             ELSE 1 + IterationsLeft(root, it.node, Shift(it.pieces), Rest(it.pieces),
                                     fuel - 1)

\* the steps a call at that position, node, piece and pieces is from its end
StepsLeft(at, root, node, pieceOpt, pieces) ==
    IF at # "loop" THEN 0
    ELSE 1 + IterationsLeft(root, node, pieceOpt, pieces, MaxIterations)

\* the path enters a reference of a cycle and asks for something below it
BelowCycle ==
    /\ gast \in CyclicAsts
    /\ Len(gpath) >= 2
    /\ gpath[1] \in {Piece("c1"), Piece("c2"), Piece("s")}
    /\ Truthy(Some(gpath[2]))

\* the loop ends as the operator getPosition says it does
GetPositionAgrees ==
    GetPositionEnded =>
        LET position == getPosition(gast, gpath)
        IN  /\ position.kind # "diverges"
            /\ gposition = Some(position)

---------------------------------------------------------------------------
(* C12: reference transparency.  Whenever the traversal is at a node that  *)
(* holds an internal reference `$ref: #/p1/.../pk`, the call ends as the   *)
(* call for the direct path p1 ... pk followed by the segments not yet     *)
(* consumed (the segment being processed, with its index suffix `[N]` if   *)
(* it has one, and those after it) ends: same range, or not-found.         *)
DirectPath ==
    LET ref == ReferenceAt(gnode)
    IN  [i \in 1..(Len(ref) - 1) |-> Piece(ref[i + 1])] \o <<gpiece[1]>> \o gpieces

C12_ReferenceTransparency ==
    AtReference =>
        Walk(gast, gnode, gpiece, gpieces, MaxRefSteps) = getPosition(gast, DirectPath)

(* C13: for a path that crosses no reference, a last segment `key[N]` on a *)
(* sequence of more than N elements resolves to exactly the span of the    *)
(* element at zero-based index N, for every N >= 0 (of one digit or more); *)
(* a last segment without index resolves to the span from the key's start  *)
(* to the value's end; an intermediate segment `key[N]` descends into      *)
(* element N.                                                              *)
C13_IndexSelectsTheNthElement ==
    (GetPositionEnded /\ SpanAt(gast, gpath) # None) =>
        gposition = Some(Outcome("range", Some(SpanAt(gast, gpath)[1].start),
                                 Some(SpanAt(gast, gpath)[1].end)))

(* C14: on an AST whose internal references form no cycle getPosition()    *)
(* terminates for every path, returning a range or not-found (every step   *)
(* brings it nearer to its end); on an AST with a reference cycle a call   *)
(* for a path that descends below a node of the cycle never ends.          *)
C14_TerminatesUnlessCyclic ==
    /\ []((gast \in AcyclicAsts /\ GetPositionEnded) =>
             (gpc = "returned" /\ gposition[1].kind \in {"range", "null"}))
    /\ [][(gast \in AcyclicAsts) =>
              (StepsLeft(gpc', gast', gnode', gpiece', gpieces')
                 < StepsLeft(gpc, gast, gnode, gpiece, gpieces))]_vars
    /\ [](BelowCycle => ~GetPositionEnded)

(* C15: when parse completes successfully, every Transition of the tree    *)
(* holds at least one Transaction, whatever the operation's responses are: *)
(* absent, only `default`, a response without `examples`, or a response    *)
(* whose `examples` is empty or holds only the `schema` key.               *)
Transitions(content) ==
    Concat([i \in 1..Len(Resources(content)) |-> Resources(content)[i].content])

C15_EveryTransitionHasATransaction ==
    (pc = "returned" /\ doneCalls[1].err = None /\ input.load = "object") =>
        \A i \in 1..Len(Transitions(apiContent)) :
            Transitions(apiContent)[i].content # <<>>

====
